---- MODULE Spec2Model ----
(***************************************************************************)
(* A model of pingem's Pinger (src/src/pingem/pinger.py): one raw ICMP     *)
(* socket, a pyev loop with an idle watcher (_on_idle) and an io watcher   *)
(* (_on_receive), a bounded table of outstanding echo requests.            *)
(*                                                                         *)
(* Time.  The code only ever uses time.time() in differences               *)
(* (now - send_time, now - _last_packet_timestamp, now - time_sent), so a  *)
(* timestamp t is kept as the whole number of seconds now - t that have    *)
(* elapsed since it; Tick lets one second pass.  An elapsed time stops     *)
(* growing at MaxAge, which is past the timeout.  Between rounds no time   *)
(* difference is read before the next send has reset it, so Tick is only   *)
(* taken while the loop runs.                                              *)
(*                                                                         *)
(* Counters.  _id and _seq are masked with 0xFFFF by the code; the model   *)
(* wraps them at IdSpace and SeqSpace, which stand for 0x10000, so that a  *)
(* counter comes round within a few sends or rounds.                       *)
(*                                                                         *)
(* pyev.  An exception that leaves a watcher callback is logged by the     *)
(* loop (Loop.debug is False, the default the Pinger builds it with); the  *)
(* loop keeps running, and the watcher that raised may have been stopped.  *)
(* sendto is taken to succeed.                                             *)
(*                                                                         *)
(* Packets.  The Pinger model keeps of a request its id and sequence       *)
(* number and of a datagram its length and ICMP fields.  The bytes of a    *)
(* request, checksum included, are built by create_icmp_echo_request in    *)
(* CodecSpec, which runs the codec on its own for either host byte order.  *)
(* RoundsSpec is Spec with the requests of earlier rounds kept as history. *)
(***************************************************************************)
EXTENDS Integers, Sequences, FiniteSets, TLC

VARIABLES
    _hosts,                  \* self._hosts
    _pending_hosts,          \* self._pending_hosts
    _packets,                \* self._packets: id -> [dst_addr, send_time]
    _id,                     \* self._id
    _seq,                    \* self._seq
    _last_packet_timestamp,  \* self._last_packet_timestamp
    _packet_limit,           \* self._packet_limit
    _timeout,                \* self._timeout
    loop_running,            \* self._loop is inside start()
    io_active,               \* self._io_watcher is active
    snapshot,                \* history: _hosts as the last ping() found it
    sent,                    \* history: hosts sent to in that round, in order
    reported,                \* history: host -> callbacks in that round
    earlier,                 \* history: <<id, seq>> of requests of earlier rounds
    event,                   \* history: the handler that ran last
    codec                    \* a call of create_icmp_echo_request: its arguments,
                             \* sys.byteorder and the packet it returned

vars == <<_hosts, _pending_hosts, _packets, _id, _seq, _last_packet_timestamp,
          _packet_limit, _timeout, loop_running, io_active,
          snapshot, sent, reported, earlier, event, codec>>

(* ------------------------------ bounds -------------------------------- *)

Hosts == {"a", "b"}
MaxHosts == 3
MaxLimit == 2

(* the width of the two counters, 0x10000 in the code *)
IdSpace == 2
SeqSpace == 2

(* --------------------------- program constants ------------------------ *)

ICMP_ECHO_REPLY == 0
ICMP_ECHO_REQUEST == 8
ICMP_HEADER_SIZE == 8
ICMP_TIMESTAMP_SIZE == 8
IP_HEADER_SIZE == 20
Timeout == 1

MaxAge == Timeout + 2

(* ------------------------------ helpers ------------------------------- *)

None == <<>>
Some(v) == <<v>>

Older(t) == IF t < MaxAge THEN t + 1 ELSE t

\* time.time() - t, for a timestamp kept as the seconds elapsed since it
Elapsed(t) == t

\* mutant: every record that has timed out goes with the one that is deleted
RemoveLate(packets, id) ==
    [i \in {j \in DOMAIN packets \ {id} : packets[j].send_time <= Timeout} |->
        packets[i]]

Remove(packets, id) == [i \in DOMAIN packets \ {id} |-> packets[i]]

\* mutant: the record is not stored
PutNothing(packets, id, packet) == packets

Put(packets, id, packet) ==
    [i \in DOMAIN packets \cup {id} |-> IF i = id THEN packet ELSE packets[i]]

NoCalls == [i \in {} |-> None]

Event(name) ==
    [name |-> name, parsed |-> "-", calls |-> NoCalls, raised |-> "none",
     request |-> None]

Count(reps, calls) ==
    [h \in Hosts |->
        reps[h] + Cardinality({i \in DOMAIN calls : calls[i].host = h})]

NoneReported == [h \in Hosts |-> 0]

(* --------------------------- the result callback ---------------------- *)

\* What the user's callback may do to the Pinger: nothing, add_host, clear_hosts
CallbackActs == {<<"pass">>, <<"clear_hosts">>, <<"add_host", "a">>}

add_host(hosts, host) == Append(hosts, host)

\* mutant: the first host is kept
clear_hostsButFirst(hosts) == IF hosts = <<>> THEN <<>> ELSE <<Head(hosts)>>

clear_hosts(hosts) == <<>>

Act(hosts, act) ==
    IF act[1] = "add_host" THEN add_host(hosts, act[2])
    ELSE IF act[1] = "clear_hosts" THEN clear_hosts(hosts)
    ELSE hosts

RECURSIVE Acts(_, _)
Acts(hosts, acts) ==
    IF acts = <<>> THEN hosts ELSE Acts(Act(hosts, Head(acts)), Tail(acts))

\* one act per callback invocation, the list kept within MaxHosts
ActsFor(hosts, n) ==
    {acts \in [1..n -> CallbackActs] :
        \A k \in 1..n : Len(Acts(hosts, SubSeq(acts, 1, k))) <= MaxHosts}

(* ------------------------------ ICMP codec ---------------------------- *)

Ids == 0..(IdSpace - 1)
Seqs == 0..(SeqSpace - 1)

\* A received IP datagram: its length in bytes and the ICMP fields it holds
\* (a field that lies past the end of the datagram is never read).
Datagram(length, type, id, seq, time_sent) ==
    [length |-> length, type |-> type, id |-> id, seq |-> seq,
     time_sent |-> time_sent]

FullLength == IP_HEADER_SIZE + ICMP_HEADER_SIZE + ICMP_TIMESTAMP_SIZE

\* struct.unpack raises struct.error on a slice shorter than its format
HeaderReadable(packet) == packet.length >= IP_HEADER_SIZE + ICMP_HEADER_SIZE

TimestampReadable(packet) == packet.length >= FullLength

parse_icmp_echo_reply(packet) ==
    IF ~HeaderReadable(packet) THEN [raise |-> "struct.error"]
    ELSE IF packet.type # ICMP_ECHO_REPLY THEN [raise |-> "InvalidIcmpPacketType"]
    ELSE IF ~TimestampReadable(packet) THEN [raise |-> "struct.error"]
    ELSE [raise |-> "none", id |-> packet.id, seq |-> packet.seq,
          time_sent |-> packet.time_sent]

(* Building a request, on bytes 0..255.  id_ and seq are 16-bit numbers; a  *)
(* timestamp is the eight bytes of its IEEE-754 double, the most            *)
(* significant first.                                                       *)

ByteOrders == {"little", "big"}       \* sys.byteorder

FillerByte == 81                      \* 'Q'

\* mutant: a negative count is taken for its size
TimesAbs(n, byte) == [k \in 1..(IF n < 0 THEN 0 - n ELSE n) |-> byte]

\* n * 'Q': the empty string when n is not positive
Times(n, byte) == IF n > 0 THEN [k \in 1..n |-> byte] ELSE <<>>

Reverse(bytes) == [k \in 1..Len(bytes) |-> bytes[Len(bytes) + 1 - k]]

\* struct.pack('!H', v)
PackU16(v) == <<v \div 256, v % 256>>

\* struct.pack('d', timestamp): native byte order
PackDouble(timestamp, byteorder) ==
    IF byteorder = "big" THEN timestamp ELSE Reverse(timestamp)

\* struct.pack(ICMP_HEADER_FORMAT, ICMP_ECHO_REQUEST, 0, checksum, id_, seq)
Header(checksum, id_, seq) ==
    <<ICMP_ECHO_REQUEST, 0>> \o PackU16(checksum) \o PackU16(id_) \o PackU16(seq)

Swap16(word) == (word % 256) * 256 + (word \div 256)

\* array.array('H', source_string): the 16-bit words as the host reads them
Words(bytes, byteorder) ==
    [k \in 1..(Len(bytes) \div 2) |->
        IF byteorder = "big"
        THEN bytes[2 * k - 1] * 256 + bytes[2 * k]
        ELSE bytes[2 * k] * 256 + bytes[2 * k - 1]]

RECURSIVE Sum(_)
Sum(words) == IF words = <<>> THEN 0 ELSE Head(words) + Sum(Tail(words))

\* socket.htons
htons(value, byteorder) == IF byteorder = "big" THEN value ELSE Swap16(value)

\* The sum of a packet stays far below 2^32 (an IP datagram has fewer than
\* 2^15 words), so val &= 0xffffffff changes nothing and is left out.
calculate_checksum(source_string, byteorder) ==
    LET padded == IF Len(source_string) % 2 = 1
                  THEN source_string \o <<0>>
                  ELSE source_string
        native == Words(padded, byteorder)
        converted == IF byteorder = "big"
                     THEN [k \in DOMAIN native |-> Swap16(native[k])]
                     ELSE native
        val == Sum(converted)
        folded == (val \div 65536) + (val % 65536)
        carried == folded + (folded \div 65536)
        answer == 65535 - (carried % 65536)
    IN  htons(answer, byteorder)

create_icmp_echo_request(id_, seq, timestamp, size, byteorder) ==
    LET payload_psize == size - ICMP_HEADER_SIZE
        payload == PackDouble(timestamp, byteorder)
                   \o Times(payload_psize - ICMP_TIMESTAMP_SIZE, FillerByte)
        checksum == calculate_checksum(Header(0, id_, seq) \o payload, byteorder)
    IN  Header(checksum, id_, seq) \o payload

(* ------------------------------ Pinger -------------------------------- *)

NextSeq(seq) == (seq + 1) % SeqSpace

\* mutant: the counter is not truncated
NextIdUnmasked(id) == id + 1

\* _get_next_packet_id returns self._id and leaves this in self._id
NextId(id) == (id + 1) % IdSpace

\* mutant: the window test off by one
WindowOpenOffByOne(packets, limit) == Cardinality(DOMAIN packets) <= limit

WindowOpen(packets, limit) == Cardinality(DOMAIN packets) < limit

\* mutant: the difference taken the wrong way round
PacketTimedOutReversed(packet, timeout) == 0 - Elapsed(packet.send_time) > timeout

PacketTimedOut(packet, timeout) == Elapsed(packet.send_time) > timeout

\* mutant: the round does not wait for the last send to time out
_have_timed_outAtOnce(last, timeout) == Elapsed(last) >= 0

_have_timed_out(last, timeout) == Elapsed(last) > timeout

\* the Pinger as __init__ leaves it
Constructed ==
    /\ _hosts = <<>>
    /\ _pending_hosts = <<>>
    /\ _packets = [i \in {} |-> None]
    /\ _id = 0
    /\ _seq = 0
    /\ _last_packet_timestamp = MaxAge      \* 0, the epoch
    /\ _packet_limit \in 1..MaxLimit
    /\ _timeout = Timeout
    /\ loop_running = FALSE
    /\ io_active = FALSE
    /\ snapshot = <<>>
    /\ sent = <<>>
    /\ reported = NoneReported
    /\ earlier = {}
    /\ event = Event("init")

\* the Pinger model leaves the bytes of its packets out: no codec call
NoCall == [packet |-> <<>>]

Init == Constructed /\ codec = NoCall

Config == <<_packet_limit, _timeout>>

\* add_host, called between rounds (the history of the rounds that returned
\* is dropped)
AddHost ==
    /\ ~loop_running
    /\ Len(_hosts) < MaxHosts
    /\ \E host \in Hosts : _hosts' = add_host(_hosts, host)
    /\ event' = Event("add_host")
    /\ UNCHANGED <<_pending_hosts, _packets, _id, _seq, _last_packet_timestamp,
                   Config, codec, loop_running, io_active>>
    /\ snapshot' = <<>>
    /\ sent' = <<>>
    /\ reported' = NoneReported
    /\ earlier' = {}

\* clear_hosts, called between rounds
ClearHosts ==
    /\ ~loop_running
    /\ _hosts' = clear_hosts(_hosts)
    /\ event' = Event("clear_hosts")
    /\ UNCHANGED <<_pending_hosts, _packets, _id, _seq, _last_packet_timestamp,
                   Config, codec, loop_running, io_active>>
    /\ snapshot' = <<>>
    /\ sent' = <<>>
    /\ reported' = NoneReported
    /\ earlier' = {}

\* ping(), up to the point where the loop starts dispatching
Ping ==
    /\ ~loop_running
    /\ _pending_hosts' = _hosts
    /\ _seq' = NextSeq(_seq)
    /\ io_active' = TRUE
    /\ loop_running' = TRUE
    /\ snapshot' = _hosts
    /\ sent' = <<>>
    /\ reported' = NoneReported
    /\ event' = Event("ping")
    /\ UNCHANGED <<_hosts, _packets, _id, _last_packet_timestamp, Config, codec,
                   earlier>>

\* mutant: the host is taken from the front of the queue, pop(0)
SendFirst ==
    LET dst_addr == Head(_pending_hosts)
        packet_id == _id
    IN  /\ _pending_hosts' = Tail(_pending_hosts)
        /\ _id' = NextId(_id)
        /\ _packets' = Put(_packets, packet_id,
                           [dst_addr |-> dst_addr, send_time |-> 0])
        /\ _last_packet_timestamp' = 0
        /\ sent' = Append(sent, dst_addr)
        /\ event' = [Event("idle") EXCEPT
                         !.request = Some([id |-> packet_id, seq |-> _seq])]
        /\ UNCHANGED <<_hosts, _seq, Config, codec, loop_running, io_active,
                       snapshot, reported>>

\* _try_send's then-branch: _send(self._pending_hosts.pop())
Send ==
    LET dst_addr == _pending_hosts[Len(_pending_hosts)]
        packet_id == _id
    IN  /\ _pending_hosts' = SubSeq(_pending_hosts, 1, Len(_pending_hosts) - 1)
        /\ _id' = NextId(_id)
        /\ _packets' = Put(_packets, packet_id,
                           [dst_addr |-> dst_addr, send_time |-> 0])
        /\ _last_packet_timestamp' = 0
        /\ sent' = Append(sent, dst_addr)
        /\ event' = [Event("idle") EXCEPT
                         !.request = Some([id |-> packet_id, seq |-> _seq])]
        /\ UNCHANGED <<_hosts, _seq, Config, codec, loop_running, io_active,
                       snapshot, reported>>

\* dict iteration order is not the order of ids or of send times: any of the
\* records that have timed out may be the first one the loop meets
_try_removing_a_timed_out_packet ==
    LET late == {i \in DOMAIN _packets : PacketTimedOut(_packets[i], _timeout)}
    IN  IF late = {}
        THEN UNCHANGED vars
        ELSE \E packet_id \in late : \E acts \in ActsFor(_hosts, 1) :
             LET calls == [i \in {packet_id} |->
                             [host |-> _packets[i].dst_addr, rtt |-> None,
                              send_time |-> _packets[i].send_time]]
             IN  /\ _hosts' = Acts(_hosts, acts)
                 /\ _packets' = Remove(_packets, packet_id)
                 /\ reported' = Count(reported, calls)
                 /\ event' = [Event("idle") EXCEPT !.calls = calls]
                 /\ UNCHANGED <<_pending_hosts, _id, _seq,
                                _last_packet_timestamp, Config, codec, loop_running,
                                io_active, snapshot, sent>>

\* self._loop.stop(); self._send_timeouts()
StopAndSendTimeouts ==
    \E acts \in ActsFor(_hosts, Cardinality(DOMAIN _packets)) :
    LET calls == [i \in DOMAIN _packets |->
                    [host |-> _packets[i].dst_addr, rtt |-> None,
                     send_time |-> _packets[i].send_time]]
    IN  /\ loop_running' = FALSE
        /\ _hosts' = Acts(_hosts, acts)
        /\ _packets' = [i \in {} |-> None]
        /\ reported' = Count(reported, calls)
        /\ event' = [Event("idle") EXCEPT !.calls = calls]
        /\ UNCHANGED <<_pending_hosts, _id, _seq, _last_packet_timestamp,
                       Config, codec, io_active, snapshot, sent>>

\* _on_idle; the history of earlier rounds is left to the action that runs it
_on_idle ==
    /\ loop_running
    /\ IF _pending_hosts # <<>>
       THEN IF WindowOpen(_packets, _packet_limit)
            THEN Send
            ELSE _try_removing_a_timed_out_packet
       ELSE IF DOMAIN _packets = {}
               \/ _have_timed_out(_last_packet_timestamp, _timeout)
            THEN StopAndSendTimeouts
            ELSE UNCHANGED vars

\* the idle watcher fires
OnIdle == _on_idle /\ UNCHANGED earlier

\* the ids of the requests of the round: the last Len(sent) values of _id
SentIds == {(_id + IdSpace * Len(sent) - k) % IdSpace : k \in 1..Len(sent)}

\* the idle watcher fires, and the requests of a round that ends are kept as
\* history: their replies may still be on the way
OnIdleRecorded ==
    /\ _on_idle
    /\ earlier' = IF loop_running'
                  THEN earlier
                  ELSE earlier \cup {<<id, _seq>> : id \in SentIds}

\* a timestamp taken before the round began: older than any of its records
LongAgo == MaxAge + 1

\* The datagrams the socket may hand over: truncated ones, an ICMP message
\* that is no echo reply (whole, or cut after its header), and echo replies
\* with any id and sequence number, carrying the timestamp of the request
\* they answer or, for an outstanding id, one that lies in the future or, if
\* a request of an earlier round had that id and sequence number, the
\* timestamp of that request.
Stamps(id) ==
    IF id \in DOMAIN _packets
    THEN {_packets[id].send_time, -1}
         \cup (IF <<id, _seq>> \in earlier THEN {LongAgo} ELSE {})
    ELSE {0}

Datagrams ==
    {Datagram(IP_HEADER_SIZE + ICMP_HEADER_SIZE - 1, 0, 0, 0, 0)}
    \cup {Datagram(FullLength - 1, ICMP_ECHO_REPLY, id, _seq, 0) : id \in Ids}
    \cup {Datagram(length, ICMP_ECHO_REQUEST, NextId(_id), _seq, 0) :
              length \in {FullLength - 1, FullLength}}
    \cup UNION {{Datagram(FullLength, ICMP_ECHO_REPLY, id, seq, ts) :
                    seq \in Seqs, ts \in Stamps(id)} : id \in Ids}

\* mutant: the sequence number is not compared
MatchesAnySeq(parsed, seq, packets) ==
    /\ parsed.raise = "none"
    /\ parsed.id \in DOMAIN packets

\* which of _on_receive's returns a parsed datagram takes
Matches(parsed, seq, packets) ==
    /\ parsed.raise = "none"
    /\ parsed.seq = seq
    /\ parsed.id \in DOMAIN packets

OnReceive(received_packet) ==
    LET parsed == parse_icmp_echo_reply(received_packet)
        got == [Event("receive") EXCEPT !.parsed = parsed.raise]
    IN  /\ loop_running
        /\ io_active
        /\ IF parsed.raise = "struct.error"
           THEN \* not caught by _on_receive: it reaches the loop
                /\ event' = [got EXCEPT !.raised = "struct.error"]
                /\ io_active' \in BOOLEAN
                /\ UNCHANGED <<_hosts, _pending_hosts, _packets, _id, _seq,
                               _last_packet_timestamp, Config, codec, loop_running,
                               snapshot, sent, reported, earlier>>
           ELSE IF ~Matches(parsed, _seq, _packets)
           THEN /\ event' = got
                /\ UNCHANGED <<_hosts, _pending_hosts, _packets, _id, _seq,
                               _last_packet_timestamp, Config, codec, loop_running,
                               io_active, snapshot, sent, reported, earlier>>
           ELSE \E acts \in ActsFor(_hosts, 1) :
                LET packet == _packets[parsed.id]
                    rtt == Elapsed(parsed.time_sent)
                    calls == [i \in {parsed.id} |->
                                [host |-> packet.dst_addr, rtt |-> Some(rtt),
                                 send_time |-> packet.send_time]]
                IN  /\ _packets' = Remove(_packets, parsed.id)
                    /\ _hosts' = Acts(_hosts, acts)
                    /\ reported' = Count(reported, calls)
                    /\ event' = [got EXCEPT !.calls = calls]
                    /\ UNCHANGED <<_pending_hosts, _id, _seq,
                                   _last_packet_timestamp, Config, codec,
                                   loop_running, io_active, snapshot, sent,
                                   earlier>>

Receive == \E received_packet \in Datagrams : OnReceive(received_packet)

\* one second passes
Tick ==
    /\ loop_running
    /\ \/ _last_packet_timestamp < MaxAge
       \/ \E i \in DOMAIN _packets : _packets[i].send_time < MaxAge
    /\ _last_packet_timestamp' = Older(_last_packet_timestamp)
    /\ _packets' = [i \in DOMAIN _packets |->
                      [_packets[i] EXCEPT !.send_time = Older(@)]]
    /\ event' = Event("tick")
    /\ UNCHANGED <<_hosts, _pending_hosts, _id, _seq, Config, codec, loop_running,
                   io_active, snapshot, sent, reported, earlier>>

Next == AddHost \/ ClearHosts \/ Ping \/ OnIdle \/ Receive \/ Tick

Spec == Init /\ [][Next]_vars

\* The idle watcher is called whenever the loop has nothing else to do, and
\* the clock moves on.
FairSpec == Spec /\ WF_vars(OnIdle) /\ WF_vars(Tick)

\* The same program, with the requests of earlier rounds kept as history.
RoundsNext ==
    AddHost \/ ClearHosts \/ Ping \/ OnIdleRecorded \/ Receive \/ Tick

RoundsSpec == Init /\ [][RoundsNext]_vars

(* ------------------------- the codec on its own ----------------------- *)

MaxSize == 18

\* the arguments of the calls: sizes below, at and above header plus
\* timestamp, odd and even, and the default size 64
Sizes == (-1..MaxSize) \cup {64}

RequestIds == {0, 1, 255, 256, 4660, 65535}

RequestSeqs == {0, 1, 65535}

Timestamps ==
    {<<0, 0, 0, 0, 0, 0, 0, 0>>,
     <<65, 217, 94, 11, 18, 52, 86, 120>>,
     <<0, 0, 0, 0, 0, 0, 255, 248>>}

PingerVars ==
    <<_hosts, _pending_hosts, _packets, _id, _seq, _last_packet_timestamp,
      _packet_limit, _timeout, loop_running, io_active,
      snapshot, sent, reported, earlier, event>>

CodecInit ==
    /\ Constructed
    /\ codec \in [byteorder : ByteOrders, id_ : RequestIds, seq : RequestSeqs,
                  timestamp : Timestamps, size : Sizes, packet : {<<>>}]

CreateRequest ==
    /\ codec.packet = <<>>
    /\ codec' = [codec EXCEPT !.packet =
                     create_icmp_echo_request(codec.id_, codec.seq,
                         codec.timestamp, codec.size, codec.byteorder)]
    /\ UNCHANGED PingerVars

CodecNext == CreateRequest

CodecSpec == CodecInit /\ [][CodecNext]_vars

(* ------------------------------ claims -------------------------------- *)

Occurrences(hosts, h) == Cardinality({k \in 1..Len(hosts) : hosts[k] = h})

Outstanding == Cardinality(DOMAIN _packets)

\* ping() has just returned: the idle handler stopped the loop
RoundReturned == ~loop_running /\ event.name = "idle"

\* the step is a send: _send ran once
IsSend == Len(sent') = Len(sent) + 1

\* the step invoked the result callback
Called == DOMAIN event'.calls # {}

\* C1: when ping() returns, the callback has been invoked exactly once for
\* every host occurrence of the round's snapshot, and at no time more often.
C1_OneCallbackPerHost ==
    /\ \A h \in Hosts : reported[h] <= Occurrences(snapshot, h)
    /\ RoundReturned =>
          \A h \in Hosts : reported[h] = Occurrences(snapshot, h)

\* C2: the table never holds more than _packet_limit records; a send happens
\* only with strictly fewer records than that, and adds at most one.
C2_WindowBound ==
    [][/\ Cardinality(DOMAIN _packets') <= _packet_limit'
       /\ IsSend => /\ Outstanding < _packet_limit
                    /\ Cardinality(DOMAIN _packets') <= Outstanding + 1]_vars

\* C2's case: the window is full and hosts are still pending
C2_WindowFull == Outstanding = _packet_limit /\ _pending_hosts # <<>>

\* C4: with a window of at most IdSpace packets, a send never allocates an id
\* that is a key of the table.
C4_FreshPacketId ==
    [][(IsSend /\ _packet_limit <= IdSpace) => _id \notin DOMAIN _packets]_vars

\* C3: with idle ticks scheduled and the clock advancing, ping() returns.
C3_PingReturns == loop_running ~> ~loop_running

\* C3's case: the window was full with hosts pending, and the idle handler
\* evicted a record that had timed out
C3_Evicted ==
    /\ loop_running
    /\ _pending_hosts # <<>>
    /\ event.name = "idle"
    /\ DOMAIN event.calls # {}

\* C5: a reply's rtt is the time elapsed since the send_time of the record it
\* matched, and so is never negative.
C5_RttFromRecord ==
    \A i \in DOMAIN event.calls :
        LET call == event.calls[i]
        IN  call.rtt # None =>
                /\ call.rtt = Some(Elapsed(call.send_time))
                /\ call.rtt[1] >= 0

\* a datagram cut short of the fields parse_icmp_echo_reply reads
Truncated(d) ==
    \/ d.length < IP_HEADER_SIZE + ICMP_HEADER_SIZE
    \/ d.type = ICMP_ECHO_REPLY /\ d.length < FullLength

\* C6: a truncated datagram is discarded by the receive handler: nothing is
\* raised, no callback is made, table, queue and counters are unchanged and
\* the loop goes on as before.
C6_TruncatedDiscarded ==
    [][\/ /\ event'.raised = "none"
          /\ ~Called
          /\ UNCHANGED <<_packets, _pending_hosts, _id, _seq,
                         loop_running, io_active>>
       \/ \A d \in Datagrams : ~(Truncated(d) /\ OnReceive(d))]_vars

\* a datagram whose header can be read and shows no echo reply, or another
\* round's sequence number, or an id that is not outstanding
Unmatched(d) ==
    /\ HeaderReadable(d)
    /\ \/ d.type # ICMP_ECHO_REPLY
       \/ d.seq # _seq
       \/ d.id \notin DOMAIN _packets

\* C7: a datagram that is no echo reply, or carries another sequence number,
\* or an id that is not outstanding, causes no callback and changes neither
\* the table, the queue nor the two counters.
C7_UnmatchedIgnored ==
    [][\/ /\ ~Called
          /\ UNCHANGED <<_packets, _pending_hosts, _id, _seq, reported>>
       \/ \A d \in Datagrams : ~(Unmatched(d) /\ OnReceive(d))]_vars

\* C7's case: an echo reply was parsed and ignored while requests were
\* outstanding
C7_ReplyIgnored ==
    /\ event.name = "receive"
    /\ event.parsed = "none"
    /\ DOMAIN event.calls = {}
    /\ DOMAIN _packets # {}

\* C8: a timeout is reported only for a record older than the timeout, and
\* every request that was sent is reported by the time ping() returns (with
\* None unless a matching reply came).
C8_TimeoutNotEarly ==
    /\ \A i \in DOMAIN event.calls :
          event.calls[i].rtt = None =>
              Elapsed(event.calls[i].send_time) > _timeout
    /\ RoundReturned =>
          \A h \in Hosts : reported[h] = Occurrences(sent, h)

\* C9: what the callback does to the host list changes neither the pending
\* queue nor the table (a step that calls back removes only the records it
\* reports); the round reports exactly its snapshot; the next ping() takes
\* the list as it then is.
C9_RoundWorksOnSnapshot ==
    [][/\ Called =>
            /\ _pending_hosts' = _pending_hosts
            /\ _packets' = [i \in DOMAIN _packets \ DOMAIN event'.calls |->
                               _packets[i]]
       /\ event'.name = "ping" => _pending_hosts' = _hosts
       /\ RoundReturned' =>
            \A h \in Hosts : reported'[h] = Occurrences(snapshot', h)]_vars

Total(reps) == reps["a"] + reps["b"]

\* C10: ping() leaves the host list alone (it changes only by add_host and
\* clear_hosts, between rounds or from the callback); every round starts
\* from the whole list and an empty table, and ends having made one callback
\* per host of the list.
C10_PingReusesHosts ==
    [][/\ _hosts' # _hosts =>
            \/ event'.name \in {"add_host", "clear_hosts"}
            \/ Called
       /\ event'.name = "ping" =>
            /\ _hosts' = _hosts
            /\ _pending_hosts' = _hosts
            /\ DOMAIN _packets' = {}
       /\ RoundReturned' =>
            /\ Total(reported') = Len(snapshot')
            /\ _pending_hosts' = <<>>
            /\ DOMAIN _packets' = {}]_vars

\* C11: a round started on an empty host list, as clear_hosts() leaves it,
\* sends nothing and makes no callback, whatever datagrams arrive, and it
\* returns on its first idle tick.
C11_ClearedRoundIsEmpty ==
    [][/\ (event.name = "clear_hosts" /\ event'.name = "ping") =>
            /\ snapshot' = <<>>
            /\ _pending_hosts' = <<>>
            /\ DOMAIN _packets' = {}
       /\ (loop_running /\ snapshot = <<>>) =>
            /\ ~IsSend
            /\ ~Called
            /\ _pending_hosts' = <<>>
            /\ DOMAIN _packets' = {}
            /\ event'.name = "idle" => ~loop_running']_vars

\* C11's case: hosts had been pinged before, and the round on the cleared
\* list has returned
C11_ClearedRoundReturned ==
    /\ RoundReturned
    /\ snapshot = <<>>
    /\ _hosts = <<>>
    /\ _id # 0

\* the step is a per-packet eviction: the idle handler called back and the
\* loop goes on
IsEviction == event'.name = "idle" /\ Called /\ loop_running'

\* C12: an eviction removes exactly one record and makes exactly one
\* (host, None) callback for it, and that record is the oldest of those that
\* have timed out.
C12_EvictsOldest ==
    [][IsEviction =>
          \E id \in DOMAIN _packets :
              /\ DOMAIN event'.calls = {id}
              /\ event'.calls[id].rtt = None
              /\ event'.calls[id].host = _packets[id].dst_addr
              /\ _packets' = Remove(_packets, id)
              /\ \A j \in DOMAIN _packets :
                     PacketTimedOut(_packets[j], _timeout) =>
                         Elapsed(_packets[j].send_time)
                             <= Elapsed(_packets[id].send_time)]_vars

\* C13: the loop stops only in the idle handler, with the pending queue
\* empty and the table empty or the last send older than the timeout; the
\* step reports every record still in the table once, with None, and leaves
\* queue and table empty, so that ping() finds the table empty.
C13_RoundEnd ==
    [][/\ (loop_running /\ ~loop_running') =>
            /\ event'.name = "idle"
            /\ _pending_hosts = <<>>
            /\ \/ DOMAIN _packets = {}
               \/ Elapsed(_last_packet_timestamp) > _timeout
            /\ DOMAIN event'.calls = DOMAIN _packets
            /\ \A i \in DOMAIN _packets :
                   /\ event'.calls[i].rtt = None
                   /\ event'.calls[i].host = _packets[i].dst_addr
            /\ _pending_hosts' = <<>>
            /\ DOMAIN _packets' = {}
       /\ event'.name = "ping" =>
            /\ DOMAIN _packets = {}
            /\ DOMAIN _packets' = {}]_vars

\* C13's case: the round ended by flushing a full window of records
C13_Flushed ==
    /\ RoundReturned
    /\ Cardinality(DOMAIN event.calls) = MaxLimit

\* C14: a record is evicted only while hosts are pending and the window is
\* full, one at a time; a step of the idle handler is a send, or an eviction,
\* or the end of the round; with the pending queue empty a record leaves the
\* table only by a reply that matches it or by the flush at the end of the
\* round, for which the last send must be older than the timeout.
C14_EvictionOnlyWhenFull ==
    [][/\ IsEviction =>
            /\ _pending_hosts # <<>>
            /\ Outstanding = _packet_limit
            /\ Cardinality(DOMAIN _packets') = Outstanding - 1
       /\ event'.name = "idle" =>
            \/ IsSend /\ ~Called /\ loop_running'
            \/ IsEviction /\ ~IsSend
            \/ ~loop_running' /\ ~IsSend
       /\ (_pending_hosts = <<>> /\ DOMAIN _packets' # DOMAIN _packets) =>
            \/ /\ event'.name = "receive"
               /\ DOMAIN _packets' = DOMAIN _packets \ DOMAIN event'.calls
               /\ Cardinality(DOMAIN event'.calls) = 1
               /\ \A i \in DOMAIN event'.calls : event'.calls[i].rtt # None
            \/ /\ event'.name = "idle"
               /\ ~loop_running'
               /\ Elapsed(_last_packet_timestamp) > _timeout]_vars

\* C14's case: the queue is empty and a record older than the timeout stays
\* in the table, because the last send is not yet older than the timeout
C14_OldRecordWaits ==
    /\ loop_running
    /\ _pending_hosts = <<>>
    /\ ~_have_timed_out(_last_packet_timestamp, _timeout)
    /\ \E i \in DOMAIN _packets : PacketTimedOut(_packets[i], _timeout)

\* the step is a reply accepted by the receive handler
IsAccept == event'.name = "receive" /\ Called

\* the reply to a request of an earlier round, echoing its id, sequence
\* number and timestamp
StaleReply(d) ==
    /\ d.type = ICMP_ECHO_REPLY
    /\ d.length = FullLength
    /\ <<d.id, d.seq>> \in earlier
    /\ d.time_sent = LongAgo

\* C15: _seq starts at 0, ping() advances it by one (with wraparound) and
\* nothing else changes it; a request carries the _seq of its round; a reply
\* is accepted only with the _seq of the round, and the reply to a request of
\* an earlier round is never accepted.
C15_SequencePerRound ==
    [][/\ event.name = "init" => _seq = 0
       /\ _seq' = IF event'.name = "ping" THEN NextSeq(_seq) ELSE _seq
       /\ IsSend => event'.request[1].seq = _seq
       /\ \/ ~IsAccept
          \/ \A d \in Datagrams : ~(d.seq # _seq /\ OnReceive(d))
       /\ \/ ~IsAccept
          \/ \A d \in Datagrams : ~(StaleReply(d) /\ OnReceive(d))]_vars

\* C16: _id starts at 0; a send uses the value of _id as the id of its
\* request and of its record and leaves _id one higher, modulo the width of
\* the counter; no other step changes _id, ping() included.
C16_IdPerSend ==
    [][/\ event.name = "init" => _id = 0
       /\ _id' = IF IsSend THEN (_id + 1) % IdSpace ELSE _id
       /\ IsSend =>
            /\ event'.request[1].id = _id
            /\ _id \in DOMAIN _packets']_vars

\* C16's case: the first send of a later round took the highest id, and the
\* counter has come round to 0
C16_WrappedAcrossRounds ==
    /\ event.request # None
    /\ Len(sent) = 1
    /\ event.request[1].id = IdSpace - 1
    /\ _id = 0

\* C17: the i-th send of a round goes to the i-th host from the end of the
\* snapshot.
C17_LastInFirstOut ==
    \A i \in 1..Len(sent) :
        /\ i <= Len(snapshot)
        /\ sent[i] = snapshot[Len(snapshot) - i + 1]

\* C17's case: all hosts of a list that begins and ends with different hosts
\* have been sent to, with a callback made before the last send
C17_SentAll ==
    /\ Len(snapshot) = MaxHosts
    /\ snapshot[1] # snapshot[MaxHosts]
    /\ Len(sent) = MaxHosts
    /\ event.request # None
    /\ Total(reported) >= 1

\* one's-complement addition: the carry out of 16 bits is added back in
RECURSIVE Fold(_)
Fold(value) ==
    IF value < 65536 THEN value
    ELSE Fold((value \div 65536) + (value % 65536))

\* RFC 1071: the one's-complement sum of the big-endian 16-bit words, an odd
\* last byte padded with zero
OnesComplementSum(bytes) ==
    Fold(Sum(Words(IF Len(bytes) % 2 = 1 THEN bytes \o <<0>> ELSE bytes,
                   "big")))

InternetChecksum(bytes) == 65535 - OnesComplementSum(bytes)

\* C18: on either byte order, bytes 3 and 4 of the request hold the Internet
\* checksum of the request with those bytes zero, so that the one's-
\* complement sum of the whole request is 0xFFFF.
C18_ChecksumIsInternetChecksum ==
    codec.packet # <<>> =>
        /\ <<codec.packet[3], codec.packet[4]>> =
               PackU16(InternetChecksum(
                   [codec.packet EXCEPT ![3] = 0, ![4] = 0]))
        /\ OnesComplementSum(codec.packet) = 65535

\* C19: the request has type 8 and code 0 and is size bytes long (header,
\* timestamp, filler), or 16 bytes, without filler, for a size below 16.
C19_RequestLength ==
    codec.packet # <<>> =>
        /\ codec.packet[1] = ICMP_ECHO_REQUEST
        /\ codec.packet[2] = 0
        /\ Len(codec.packet) =
               IF codec.size >= ICMP_HEADER_SIZE + ICMP_TIMESTAMP_SIZE
               THEN codec.size
               ELSE ICMP_HEADER_SIZE + ICMP_TIMESTAMP_SIZE
        /\ SubSeq(codec.packet, ICMP_HEADER_SIZE + 1,
                  ICMP_HEADER_SIZE + ICMP_TIMESTAMP_SIZE)
               = PackDouble(codec.timestamp, codec.byteorder)
        /\ \A k \in (ICMP_HEADER_SIZE + ICMP_TIMESTAMP_SIZE + 1)
                      ..Len(codec.packet) : codec.packet[k] = FillerByte

\* C19's case: a request was built for a size too small for header and
\* timestamp
C19_Undersized ==
    /\ codec.packet # <<>>
    /\ codec.size < ICMP_HEADER_SIZE + ICMP_TIMESTAMP_SIZE
    /\ Len(codec.packet) = ICMP_HEADER_SIZE + ICMP_TIMESTAMP_SIZE

\* C20: in a round on at most IdSpace hosts, from ping() to its return, the
\* hosts still pending, the records outstanding and the callbacks made add
\* up to the number of hosts of the snapshot.
C20_HostsAccountedFor ==
    (Len(snapshot) <= IdSpace /\ (loop_running \/ RoundReturned)) =>
        Len(_pending_hosts) + Outstanding + Total(reported) = Len(snapshot)

\* C20's case: in a round on IdSpace hosts one host has been reported and
\* the record of another is outstanding
C20_MidRound ==
    /\ loop_running
    /\ Len(snapshot) = IdSpace
    /\ Outstanding >= 1
    /\ Total(reported) >= 1

====
